---- MODULE Spec2Model ----
(***************************************************************************)
(* A model of CTFd/__init__.py: the template resolution of                 *)
(* SandboxedBaseEnvironment._load_template (theme-namespaced compilation   *)
(* cache in front of the loader chain override table / theme loader /      *)
(* plugin loader), the start-up sequence of create_app, and the path       *)
(* rewrite of CTFdRequest (SpecRequest).                                   *)
(*                                                                         *)
(* _load_template holds no lock. A call is a sequence of steps, one for    *)
(* each place where it reads or writes what other threads share (the       *)
(* loader, the configured theme, the cache, the template object, the       *)
(* files), and whatever else runs in the process may take steps between    *)
(* two of them: under Spec the changes of the theme, of the override       *)
(* table, of the files and of env.loader, under SpecRace the steps of a    *)
(* second request thread as well. Line 81 is a call into the loader chain, *)
(* which reads env.loader, then asks its loaders one after the other: the  *)
(* override table, the theme loader (which reads the configured theme and  *)
(* then the file) and the plugin loader; each of these reads is a step.    *)
(*                                                                         *)
(* create_app uses three names that the file does not define:              *)
(* app.overridden_templates, ThemeLoader and run_upgrade. The variable     *)
(* supplied says which of them the rest of CTFd provides; where one is     *)
(* missing create_app ends with the AttributeError or NameError of the     *)
(* line that uses it.                                                      *)
(*                                                                         *)
(* Strings are TLA+ strings; startswith, + and split are computed on them. *)
(* None is modelled by NoLoader (for the loader), by Unset (for a          *)
(* configuration value) and by the absence of a key (for dict.get).        *)
(*                                                                         *)
(* self.cache is the cache the environment is created with by default (an  *)
(* LRU cache of 400 entries): it is never None, so the branches taken when *)
(* "self.cache is not None" are the ones modelled, and it never evicts     *)
(* within the MaxTemplates instances of a behaviour.                       *)
(***************************************************************************)
EXTENDS Integers, Sequences, FiniteSets, TLC

VARIABLES
    ctf_theme,      \* configuration value "ctf_theme" (Unset: no value stored)
    overridden,     \* app.overridden_templates: name -> literal source
    disk,           \* themes directory: path -> mtime (0: no such file)
    loader,         \* env.loader: NoLoader or the identity of the loader chain
    auto_reload,    \* env.auto_reload
    cache,          \* env.cache: <<loader identity, cache_name>> -> template
    next_id,        \* identity the next compiled template instance gets
    last,           \* the call of _load_template just made and its outcome
    pc,             \* create_app: position in the start-up sequence
    import_flag,    \* the shared "import in progress" flag
    reverse_proxy,  \* app.config.get("REVERSE_PROXY")
    ctf_version,    \* configuration value "ctf_version"
    wsgi_wraps,     \* the ProxyFix wrappers put around app.wsgi_app, in order
    upgrades,       \* how many times run_upgrade() was called
    error,          \* the exception create_app ended with ("" while none)
    slept,          \* seconds of the last time.sleep of the gate
    drivername,     \* url.drivername of the database URL
    schema,         \* how the schema was brought up ("" before that step)
    ran_locked,     \* the first guarded step that ran with import_flag set ("": none)
    update_result,  \* how update_check(force=True) ended ("" before that step)
    inited,         \* the subsystems initialised by lines 149-155, in order
    set_calls,      \* the utils.set_config(key, value) calls of create_app
    supplied,       \* the names create_app uses that the rest of CTFd provides
    pending,        \* per thread: the frame of its call of _load_template
                    \* (NoPending: it is in no call)
    environ,        \* the WSGI environ of the request being constructed
    request,        \* the CTFdRequest object (NoRequest before construction)
    seen            \* request.path as the application last read it

tplVars == <<ctf_theme, overridden, disk, loader, auto_reload, cache,
             next_id, last>>
appVars == <<pc, import_flag, reverse_proxy, ctf_version,
             wsgi_wraps, upgrades, error, slept, drivername, schema,
             ran_locked>>
bootVars == <<update_result, inited, set_calls, supplied>>
raceVars == <<pending>>
reqVars == <<environ, request, seen>>
extVars == <<bootVars, raceVars, reqVars>>
vars == <<tplVars, appVars, extVars>>

----------------------------------------------------------------------------
(* Bounds of the model *)

MaxTemplates == 3       \* template instances compiled in one behaviour
MaxMtime == 2           \* modification times a theme file goes through

----------------------------------------------------------------------------
(* Strings *)

StartsWith(s, p) == Len(s) >= Len(p) /\ SubSeq(s, 1, Len(p)) = p

NoLoader == "None"
Chain == "ChoiceLoader"     \* the identity of app.jinja_loader (line 108)
Unset == "<unset>"

\* the names lines 104, 105 and 140 use without src/ defining them
MissingNames == {"overridden_templates", "ThemeLoader", "run_upgrade"}

Themes == {"core-beta", "admin"}
Names == {"x.html", "admin/x.html", "plugins/p.html", "missing.html"}
\* the calls a request makes: every name without globals, and the landing
\* template also with a global
Calls == {<<n, {}>> : n \in Names} \cup {<<"x.html", {"g"}>>}
OverrideSources == {"<p>hi</p>"}
Overridable == {"x.html"}

\* werkzeug safe_join(theme, name) for names without ".." segments
ThemePath(theme, name) == theme \o "/" \o name

DiskPaths == {ThemePath(t, n) : t \in Themes, n \in Names}
InitialFiles == {"core-beta/x.html", "admin/x.html", "core-beta/admin/x.html",
                 "core-beta/plugins/p.html"}
Editable == {"core-beta/x.html"}
PluginFiles == {"p.html"}

----------------------------------------------------------------------------
(* The template resolution engine: SandboxedBaseEnvironment *)

\* str(utils.get_config("ctf_theme"))
Str(v) == IF v = Unset THEN "None" ELSE v


\* mutant of cache_name: the theme is put in for admin/ names too
cache_name_always_theme(name, theme) == Str(theme) \o "/" \o name

\* lines 66-69: admin/ names are cached under their own name, every other
\* name under "<theme>/<name>"
cache_name(name, theme) ==
    IF StartsWith(name, "admin/") = FALSE
    THEN Str(theme) \o "/" \o name
    ELSE name

\* line 71: (weakref.ref(self.loader), cache_name)
cache_key(l, cname) == <<l, cname>>

\* a compiled template: theme is the directory the theme loader read it from,
\* under is the theme read at line 68 by the call that stored the instance
NoTemplate ==
    [id |-> 0, origin |-> "", name |-> "", theme |-> "", source |-> "",
     mtime |-> 0, globals |-> {}, under |-> ""]

\* jinja2.DictLoader(app.overridden_templates): exact match on the name
DictLoaderFinds(name) == name \in DOMAIN overridden

\* ThemeLoader: the file <theme>/<name> under the themes directory, the theme
\* being read from the configuration when the loader is asked
ThemeLoaderFinds(name, theme) ==
    /\ ThemePath(Str(theme), name) \in DOMAIN disk
    /\ disk[ThemePath(Str(theme), name)] > 0

\* position of the first "/" of s, 0 when there is none
FirstSlash(s) ==
    LET at == {i \in 1..Len(s) : SubSeq(s, i, i) = "/"}
    IN  IF at = {} THEN 0 ELSE CHOOSE i \in at : \A j \in at : i <= j

\* jinja2.PrefixLoader({"plugins": FileSystemLoader(<root>/plugins)}):
\* prefix, rest = name.split("/", 1); only the prefix "plugins" is mapped
PluginLoaderFinds(name) ==
    LET k == FirstSlash(name)
    IN  /\ k > 0
        /\ SubSeq(name, 1, k - 1) = "plugins"
        /\ SubSeq(name, k + 1, Len(name)) \in PluginFiles


\* mutants of Loaders: the theme loader is put before the override table;
\* the plugin loader is put before the theme loader
Loaders_theme_first == <<"theme", "dict", "plugins">>

Loaders_plugin_first == <<"dict", "plugins", "theme">>

\* lines 103-107: the loaders of the chain, in the order ChoiceLoader asks
\* them
Loaders == <<"dict", "theme", "plugins">>

\* the loader ChoiceLoader.load asks after the loader which has raised
\* TemplateNotFound ("none": which was the last one)
AfterLoader(which) ==
    LET i == CHOOSE k \in 1..Len(Loaders) : Loaders[k] = which
    IN  IF i < Len(Loaders) THEN Loaders[i + 1] ELSE "none"

\* DictLoader.load: the template compiled from the source the override
\* table holds for the name; NoTemplate stands for TemplateNotFound
DictLoaderLoad(name, g, id) ==
    IF DictLoaderFinds(name)
    THEN [id |-> id, origin |-> "override", name |-> name, theme |-> "",
          source |-> overridden[name], mtime |-> 0, globals |-> g, under |-> ""]
    ELSE NoTemplate

\* ThemeLoader.load once it has read the theme: the template compiled from
\* the file of that theme, with the modification time the file has
ThemeLoaderLoad(name, theme, g, id) ==
    IF ThemeLoaderFinds(name, theme)
    THEN [id |-> id, origin |-> "theme", name |-> name, theme |-> Str(theme),
          source |-> "", mtime |-> disk[ThemePath(Str(theme), name)],
          globals |-> g, under |-> ""]
    ELSE NoTemplate

\* PrefixLoader.load: the template compiled from the plugin's file
PluginLoaderLoad(name, g, id) ==
    IF PluginLoaderFinds(name)
    THEN [id |-> id, origin |-> "plugin", name |-> name, theme |-> "",
          source |-> "", mtime |-> 1, globals |-> g, under |-> ""]
    ELSE NoTemplate

\* template.is_up_to_date: the uptodate function its loader gave it
\* (DictLoader: the mapping still holds this source; FileSystemLoader: the
\* file still has the modification time it was read with)
is_up_to_date(t) ==
    CASE t.origin = "override" ->
            t.name \in DOMAIN overridden /\ overridden[t.name] = t.source
      [] t.origin = "theme" -> disk[ThemePath(t.theme, t.name)] = t.mtime
      [] OTHER -> TRUE


\* mutants of CacheHit: the entry is returned whatever its freshness; the
\* entry found is never returned
CacheHit_whatever(t) == t # NoTemplate

CacheHit_never(t) == FALSE

\* lines 74-75: template is not None and (not self.auto_reload or
\* template.is_up_to_date)
CacheHit(t) ==
    /\ t # NoTemplate
    /\ (~auto_reload \/ is_up_to_date(t))

\* mutant of UpdateGlobals: the globals of the call are dropped
UpdateGlobals_skipped(t, g) == t

\* lines 77-78: if globals: template.globals.update(globals)
UpdateGlobals(t, g) ==
    IF g # {} THEN [t EXCEPT !.globals = t.globals \cup g] ELSE t


\* mutant of CacheStore: the cache is replaced by the one new entry
CacheStore_alone(key, t) == [k \in {key} |-> t]

\* line 84: self.cache[cache_key] = template
CacheStore(key, t) ==
    [k \in DOMAIN cache \cup {key} |-> IF k = key THEN t ELSE cache[k]]


\* mutant of no_loader: the check is missing
no_loader_unchecked == FALSE

\* line 63: self.loader is None
no_loader == loader = NoLoader

\* mutant of load_name: the loader is asked for the cache name
load_name_cached(name, cname) == cname

\* line 81: self.loader.load(self, name, ...) is given the name of the call
load_name(name, cname) == name

EmptyMap == [k \in {} |-> 0]

\* what is observed of a call of _load_template(name, globals) when it
\* ends, f being its frame: the template returned or the exception raised
\* (out, tpl), whether the loader chain was asked (loaded), the theme read
\* at line 68 and the key built at line 71, whether the override table had
\* the name and whether the cache was empty when the call was made, whether
\* the cache is after the call as it was then, and the name TemplateNotFound
\* carries (raised)
Outcome(f, out, t, loaded, after, raised) ==
    [name |-> f.name, globals |-> f.globals, out |-> out, tpl |-> t,
     loaded |-> loaded, theme |-> f.theme, key |-> f.key,
     had_override |-> f.had_override,
     was_empty |-> (DOMAIN f.before = {}),
     cache_same |-> (after = f.before), raised |-> raised]

NoCall ==
    [name |-> "", globals |-> {}, out |-> "none", tpl |-> NoTemplate,
     loaded |-> FALSE, theme |-> "", key |-> <<>>, had_override |-> FALSE,
     was_empty |-> FALSE, cache_same |-> TRUE, raised |-> ""]

\* the request threads of the hosting server that may be inside
\* _load_template at the same time
Threads == {"main", "other"}
MainThread == "main"

\* the frame of a call of _load_template: at is the place the thread stands
\* at, theme the value read at line 68 ("" while not read), cname and key
\* the local variables cache_name and cache_key, tpl the local variable
\* template, ltheme the theme the theme loader has read inside line 81 (""
\* while not read); before is the cache as it was, and had_override whether
\* the override table had the name, when the call was made
NoPending ==
    [at |-> "idle", name |-> "", globals |-> {}, theme |-> "", cname |-> "",
     key |-> <<>>, tpl |-> NoTemplate, ltheme |-> "", before |-> EmptyMap,
     had_override |-> FALSE]

\* the threads that are inside a call of _load_template
InCall == {o \in Threads : pending[o].at # "idle"}

\* thread th goes on inside its call with the frame f
Goes(th, f) ==
    /\ pending' = [pending EXCEPT ![th] = f]
    /\ last' = NoCall

\* the call of thread th ends: it returns the template t or raises out
Returns(th, out, t, loaded, after, raised) ==
    /\ last' = Outcome(pending[th], out, t, loaded, after, raised)
    /\ pending' = [pending EXCEPT ![th] = NoPending]

\* _load_template(name, globals), lines 62-64: the call is made and the
\* loader is checked. A behaviour has MaxTemplates template instances: a
\* call is made while one is left for it and for each call in progress, so
\* that every call that is made runs to its end.
CallLoadTemplate(th, name, g) ==
    /\ pc = "serving"
    /\ pending[th] = NoPending
    /\ next_id + Cardinality(InCall) <= MaxTemplates
    /\ LET f == [NoPending EXCEPT !.at = "name", !.name = name,
                                  !.globals = g, !.before = cache,
                                  !.had_override = (name \in DOMAIN overridden)]
       IN  IF no_loader
           THEN \* line 64: no loader for this environment specified
                /\ last' = Outcome(f, "TypeError", NoTemplate, FALSE, cache, "")
                /\ UNCHANGED pending
           ELSE Goes(th, f)
    /\ UNCHANGED <<bootVars, reqVars, ctf_theme, overridden, disk, loader,
                   auto_reload, cache, next_id, appVars>>

\* lines 66-69: the cache name; a name outside admin/ reads the configured
\* theme here
MakeCacheName(th) ==
    /\ pc = "serving"
    /\ pending[th].at = "name"
    /\ LET f == pending[th]
       IN  Goes(th, [f EXCEPT !.at = "key",
                              !.cname = cache_name(f.name, ctf_theme),
                              !.theme = IF StartsWith(f.name, "admin/") = FALSE
                                        THEN Str(ctf_theme) ELSE ""])
    /\ UNCHANGED <<bootVars, reqVars, ctf_theme, overridden, disk, loader,
                   auto_reload, cache, next_id, appVars>>

\* line 71: the cache key is built from self.loader as it is now;
\* weakref.ref(None) raises TypeError
MakeCacheKey(th) ==
    /\ pc = "serving"
    /\ pending[th].at = "key"
    /\ LET f == pending[th]
       IN  IF loader = NoLoader
           THEN Returns(th, "TypeError(weakref)", NoTemplate, FALSE, cache, "")
           ELSE Goes(th, [f EXCEPT !.at = "get",
                                   !.key = cache_key(loader, f.cname)])
    /\ UNCHANGED <<bootVars, reqVars, ctf_theme, overridden, disk, loader,
                   auto_reload, cache, next_id, appVars>>

\* lines 72-73: template = self.cache.get(cache_key)
CacheGet(th) ==
    /\ pc = "serving"
    /\ pending[th].at = "get"
    /\ LET f == pending[th]
       IN  Goes(th, [f EXCEPT !.at = "check",
                              !.tpl = IF f.key \in DOMAIN cache
                                      THEN cache[f.key] ELSE NoTemplate])
    /\ UNCHANGED <<bootVars, reqVars, ctf_theme, overridden, disk, loader,
                   auto_reload, cache, next_id, appVars>>

\* lines 74-76: the condition under which the template found is returned
CheckFresh(th) ==
    /\ pc = "serving"
    /\ pending[th].at = "check"
    /\ LET f == pending[th]
       IN  IF CacheHit(f.tpl)
           THEN Goes(th, [f EXCEPT !.at = "hit"])
           ELSE Goes(th, [f EXCEPT !.at = "load", !.tpl = NoTemplate])
    /\ UNCHANGED <<bootVars, reqVars, ctf_theme, overridden, disk, loader,
                   auto_reload, cache, next_id, appVars>>

\* lines 77-79: the globals of the call are merged into the template object,
\* which is the one object whoever holds the instance sees, and the template
\* is returned
MergeGlobals(th) ==
    /\ pc = "serving"
    /\ pending[th].at = "hit"
    /\ LET f == pending[th]
           t == UpdateGlobals(f.tpl, f.globals)
           after == [k \in DOMAIN cache |->
                        IF cache[k].id = t.id THEN t ELSE cache[k]]
       IN  /\ cache' = after
           /\ last' = Outcome(f, "template", t, FALSE, after, "")
           /\ pending' = [o \in Threads |->
                            IF o = th THEN NoPending
                            ELSE IF pending[o].tpl.id = t.id
                            THEN [pending[o] EXCEPT !.tpl = t]
                            ELSE pending[o]]
    /\ UNCHANGED <<bootVars, reqVars, ctf_theme, overridden, disk, loader,
                   auto_reload, next_id, appVars>>

\* line 81, ChoiceLoader.load: a loader has compiled the template t, which
\* becomes the local variable template
Compiled(th, t) ==
    /\ next_id' = next_id + 1
    /\ Goes(th, [pending[th] EXCEPT !.at = "store",
                                    !.tpl = [t EXCEPT !.under = pending[th].theme]])

\* line 81, ChoiceLoader.load: the loader which has raised TemplateNotFound;
\* the next loader is asked, and after the last one TemplateNotFound(name)
\* is raised with the name line 81 passed
Missed(th, which) ==
    /\ IF AfterLoader(which) = "none"
       THEN Returns(th, "TemplateNotFound", NoTemplate, TRUE, cache,
                    load_name(pending[th].name, pending[th].cname))
       ELSE Goes(th, [pending[th] EXCEPT !.at = AfterLoader(which)])
    /\ UNCHANGED next_id

\* line 81: self.loader.load(self, name, self.make_globals(globals)):
\* self.loader is read as it is now and the chain's load is entered
LoaderLoad(th) ==
    /\ pc = "serving"
    /\ pending[th].at = "load"
    /\ IF loader = NoLoader
       THEN \* 'NoneType' object has no attribute 'load'
            Returns(th, "AttributeError", NoTemplate, FALSE, cache, "")
       ELSE Goes(th, [pending[th] EXCEPT !.at = Loaders[1]])
    /\ UNCHANGED <<bootVars, reqVars, ctf_theme, overridden, disk, loader,
                   auto_reload, cache, next_id, appVars>>

\* line 81, inside the chain: the DictLoader looks the name up in the
\* override table as it is now
AskDictLoader(th) ==
    /\ pc = "serving"
    /\ pending[th].at = "dict"
    /\ LET f == pending[th]
           t == DictLoaderLoad(load_name(f.name, f.cname), f.globals, next_id)
       IN  IF t # NoTemplate THEN Compiled(th, t) ELSE Missed(th, "dict")
    /\ UNCHANGED <<bootVars, reqVars, ctf_theme, overridden, disk, loader,
                   auto_reload, cache, appVars>>

\* line 81, inside the chain: the theme loader reads the theme that is
\* configured now
AskThemeLoader(th) ==
    /\ pc = "serving"
    /\ pending[th].at = "theme"
    /\ Goes(th, [pending[th] EXCEPT !.at = "file", !.ltheme = ctf_theme])
    /\ UNCHANGED <<bootVars, reqVars, ctf_theme, overridden, disk, loader,
                   auto_reload, cache, next_id, appVars>>

\* line 81, inside the chain: the theme loader reads the file of the theme
\* it has read, as the file is now
ReadThemeFile(th) ==
    /\ pc = "serving"
    /\ pending[th].at = "file"
    /\ LET f == pending[th]
           t == ThemeLoaderLoad(load_name(f.name, f.cname), f.ltheme,
                                f.globals, next_id)
       IN  IF t # NoTemplate THEN Compiled(th, t) ELSE Missed(th, "theme")
    /\ UNCHANGED <<bootVars, reqVars, ctf_theme, overridden, disk, loader,
                   auto_reload, cache, appVars>>

\* line 81, inside the chain: the plugin loader is asked
AskPluginLoader(th) ==
    /\ pc = "serving"
    /\ pending[th].at = "plugins"
    /\ LET f == pending[th]
           t == PluginLoaderLoad(load_name(f.name, f.cname), f.globals, next_id)
       IN  IF t # NoTemplate THEN Compiled(th, t) ELSE Missed(th, "plugins")
    /\ UNCHANGED <<bootVars, reqVars, ctf_theme, overridden, disk, loader,
                   auto_reload, cache, appVars>>

\* lines 83-85: the template is stored under the key built at line 71 and
\* returned
CacheSet(th) ==
    /\ pc = "serving"
    /\ pending[th].at = "store"
    /\ LET f == pending[th]
       IN  /\ cache' = CacheStore(f.key, f.tpl)
           /\ Returns(th, "template", f.tpl, TRUE, CacheStore(f.key, f.tpl), "")
    /\ UNCHANGED <<bootVars, reqVars, ctf_theme, overridden, disk, loader,
                   auto_reload, next_id, appVars>>

\* one step of thread th inside _load_template
LoadTemplateStep(th) ==
    \/ MakeCacheName(th)
    \/ MakeCacheKey(th)
    \/ CacheGet(th)
    \/ CheckFresh(th)
    \/ MergeGlobals(th)
    \/ LoaderLoad(th)
    \/ AskDictLoader(th)
    \/ AskThemeLoader(th)
    \/ ReadThemeFile(th)
    \/ AskPluginLoader(th)
    \/ CacheSet(th)

\* utils.set_config("ctf_theme", t) by an administrator
SetTheme(t) ==
    /\ pc = "serving"
    /\ t # ctf_theme
    /\ ctf_theme' = t
    /\ last' = NoCall
    /\ UNCHANGED <<extVars, overridden, disk, loader, auto_reload, cache,
                   next_id, appVars>>

\* app.overridden_templates[name] = source
OverrideTemplate(name, source) ==
    /\ pc = "serving"
    /\ name \notin DOMAIN overridden
    /\ overridden' = [k \in DOMAIN overridden \cup {name} |->
                        IF k = name THEN source ELSE overridden[k]]
    /\ last' = NoCall
    /\ UNCHANGED <<extVars, ctf_theme, disk, loader, auto_reload, cache,
                   next_id, appVars>>

\* a theme file is rewritten on disk
EditFile(path) ==
    /\ pc = "serving"
    /\ disk[path] > 0
    /\ disk[path] < MaxMtime
    /\ disk' = [disk EXCEPT ![path] = disk[path] + 1]
    /\ last' = NoCall
    /\ UNCHANGED <<extVars, ctf_theme, overridden, loader, auto_reload,
                   cache, next_id, appVars>>

\* env.loader = None
DetachLoader ==
    /\ pc = "serving"
    /\ loader # NoLoader
    /\ loader' = NoLoader
    /\ last' = NoCall
    /\ UNCHANGED <<extVars, ctf_theme, overridden, disk, auto_reload,
                   cache, next_id, appVars>>

\* env.loader = app.jinja_loader
AttachLoader ==
    /\ pc = "serving"
    /\ loader = NoLoader
    /\ loader' = Chain
    /\ last' = NoCall
    /\ UNCHANGED <<extVars, ctf_theme, overridden, disk, auto_reload, cache, next_id,
                   appVars>>

\* lines 149-155 in program order
Subsystems == <<"request_processors", "template_filters", "template_globals",
                "logs", "events", "plugins", "cli">>

NoEnviron == [SCRIPT_NAME |-> "", PATH_INFO |-> ""]
NoRequest == [script_root |-> "", path |-> "", base_path |-> "", rewrites |-> 0]

\* no call of _load_template is in progress and no request is being handled
ExtIdle ==
    /\ pending = [th \in Threads |-> NoPending]
    /\ environ = NoEnviron
    /\ request = NoRequest
    /\ seen = ""

AppIdle ==
    /\ pc = "serving"
    /\ import_flag = FALSE
    /\ reverse_proxy = [kind |-> "absent", value |-> ""]
    /\ ctf_version = "3.7.5"
    /\ wsgi_wraps = <<>>
    /\ upgrades = 0
    /\ error = ""
    /\ slept = 0
    /\ drivername = "sqlite"
    /\ schema = "create_all+stamp"
    /\ ran_locked = ""
    /\ update_result = "ok"
    /\ inited = Subsystems
    /\ set_calls = <<>>
    /\ supplied = MissingNames

Init ==
    /\ ctf_theme \in Themes
    /\ overridden = EmptyMap
    /\ disk = [p \in DiskPaths |-> IF p \in InitialFiles THEN 1 ELSE 0]
    /\ loader \in {NoLoader, Chain}
    /\ auto_reload \in BOOLEAN
    /\ cache = EmptyMap
    /\ next_id = 1
    /\ last = NoCall
    /\ AppIdle
    /\ ExtIdle

\* one request thread: the steps of its calls of _load_template interleave
\* with the changes of the theme, of the override table, of the theme files
\* and of env.loader that other parts of the application make; the code
\* holds no lock
Next ==
    \/ \E c \in Calls : CallLoadTemplate(MainThread, c[1], c[2])
    \/ LoadTemplateStep(MainThread)
    \/ \E t \in Themes : SetTheme(t)
    \/ \E n \in Overridable, s \in OverrideSources : OverrideTemplate(n, s)
    \/ \E p \in Editable : EditFile(p)
    \/ DetachLoader
    \/ AttachLoader

Spec == Init /\ [][Next]_vars

\* the names the two request threads of SpecRace ask for
RaceNames == {"x.html", "admin/x.html"}

\* two request threads: the steps of their calls interleave with each other
\* and with changes of the theme and of env.loader
NextRace ==
    \/ \E th \in Threads, n \in RaceNames : CallLoadTemplate(th, n, {})
    \/ \E th \in Threads : LoadTemplateStep(th)
    \/ \E t \in Themes : SetTheme(t)
    \/ DetachLoader
    \/ AttachLoader

SpecRace == Init /\ [][NextRace]_vars

----------------------------------------------------------------------------
(* Conversions used by create_app *)

Digits == {"0", "1", "2", "3", "4", "5", "6", "7", "8", "9"}

DigitVal(c) ==
    CASE c = "0" -> 0 [] c = "1" -> 1 [] c = "2" -> 2 [] c = "3" -> 3
      [] c = "4" -> 4 [] c = "5" -> 5 [] c = "6" -> 6 [] c = "7" -> 7
      [] c = "8" -> 8 [] c = "9" -> 9

IsDigits(s) == Len(s) > 0 /\ \A i \in 1..Len(s) : SubSeq(s, i, i) \in Digits

\* int(s) for a string of decimal digits
RECURSIVE int(_)
int(s) ==
    IF Len(s) = 1 THEN DigitVal(s)
    ELSE 10 * int(SubSeq(s, 1, Len(s) - 1)) + DigitVal(SubSeq(s, Len(s), Len(s)))

\* position of the first occurrence of a character of cs in s, 0 when none
FirstOf(s, cs) ==
    LET at == {i \in 1..Len(s) : SubSeq(s, i, i) \in cs}
    IN  IF at = {} THEN 0 ELSE CHOOSE i \in at : \A j \in at : i <= j

\* s.split(sep) for a one-character separator
RECURSIVE split(_, _)
split(s, sep) ==
    LET k == FirstOf(s, {sep})
    IN  IF k = 0 THEN <<s>>
        ELSE <<SubSeq(s, 1, k - 1)>> \o split(SubSeq(s, k + 1, Len(s)), sep)

\* distutils StrictVersion(s): "N.N[.N][{a|b}N]" becomes the version triple
\* and the prerelease pair (<<>> for none); ok is FALSE where parse raises
\* ValueError; the pattern's final $ also matches before one trailing newline
StrictVersion(given) ==
    LET s == IF Len(given) > 0 /\ SubSeq(given, Len(given), Len(given)) = "\n"
             THEN SubSeq(given, 1, Len(given) - 1) ELSE given
        p == FirstOf(s, {"a", "b"})
        main == IF p = 0 THEN s ELSE SubSeq(s, 1, p - 1)
        tail == IF p = 0 THEN "" ELSE SubSeq(s, p + 1, Len(s))
        parts == split(main, ".")
        ok == /\ Len(parts) \in {2, 3}
              /\ \A i \in 1..Len(parts) : IsDigits(parts[i])
              /\ (p # 0 => IsDigits(tail))
    IN  IF ~ok THEN [ok |-> FALSE, version |-> <<>>, prerelease |-> <<>>]
        ELSE [ok |-> TRUE,
              version |-> <<int(parts[1]), int(parts[2]),
                            IF Len(parts) = 3 THEN int(parts[3]) ELSE 0>>,
              prerelease |-> IF p = 0 THEN <<>>
                             ELSE <<SubSeq(s, p, p), int(tail)>>]

\* tuple comparison a < b for tuples of numbers of the same length
RECURSIVE TupleLess(_, _)
TupleLess(a, b) ==
    IF Len(a) = 0 THEN FALSE
    ELSE IF a[1] # b[1] THEN a[1] < b[1]
    ELSE TupleLess(Tail(a), Tail(b))

\* prerelease pairs <<letter, number>>: "a" sorts before "b"
PreLess(a, b) ==
    IF a[1] # b[1] THEN a[1] = "a" ELSE a[2] < b[2]


\* mutant of VersionLess: <= for <
VersionLessOrEqual(v, w) ==
    IF v.version # w.version THEN TupleLess(v.version, w.version)
    ELSE IF v.prerelease = <<>> THEN w.prerelease = <<>>
    ELSE IF w.prerelease = <<>> THEN TRUE
    ELSE v.prerelease = w.prerelease \/ PreLess(v.prerelease, w.prerelease)

\* StrictVersion.__lt__ (StrictVersion._cmp(other) < 0)
VersionLess(v, w) ==
    IF v.version # w.version THEN TupleLess(v.version, w.version)
    ELSE IF v.prerelease = <<>> THEN FALSE
    ELSE IF w.prerelease = <<>> THEN TRUE
    ELSE PreLess(v.prerelease, w.prerelease)

----------------------------------------------------------------------------
(* create_app, lines 88-162 *)

\* line 33
version_string == "3.7.5"

\* line 101: time.sleep(5)
SleepSeconds == 5

StoredVersions ==
    {Unset, "", "3.7.0", "3.7.5", "3.7", "3.7.5b1", "3.10.0", "dev", "3.7.0\n"}
StoredThemes == {Unset, ""} \cup Themes

\* "not value" for a configuration value: None and the empty string
Falsy(v) == v = Unset \/ v = ""
ReverseProxyValues ==
    {[kind |-> "absent", value |-> ""],
     [kind |-> "str", value |-> "1,1,0,0"],
     [kind |-> "str", value |-> "2,1"],
     [kind |-> "tuple", value |-> <<1, 1, 0, 0>>]}
Drivers == {"sqlite", "mysql+pymysql"}

\* the start-up steps in program order, named by what they do
Steps == <<"config", "gate", "loaders", "database", "schema", "marshmallow",
           "proxy", "version", "theme", "update_check", "init", "route">>


\* utils.import_in_progress()
import_in_progress == import_flag

\* the steps behind the gate that touch the persistent store or come later
GuardedSteps == {Steps[i] : i \in 4..Len(Steps)}

\* a step of create_app executes: remember the first guarded one that does
\* so while the import flag is set
Ran(step) ==
    ran_locked' = IF import_flag /\ step \in GuardedSteps /\ ran_locked = ""
                  THEN step ELSE ran_locked

\* lines 89-97: the application object, its configuration and the cache
LoadConfig ==
    /\ pc = "config"
    /\ pc' = "gate"
    /\ Ran("config")
    /\ UNCHANGED <<extVars, tplVars, import_flag, reverse_proxy, ctf_version,
                   wsgi_wraps, upgrades, error, slept, drivername, schema>>


\* mutant of GatePoll: the loop condition is not evaluated
GatePoll_passes ==
    /\ pc = "gate"
    /\ pc' = "loaders"
    /\ Ran("gate")
    /\ UNCHANGED <<extVars, tplVars, import_flag, reverse_proxy, ctf_version,
                   wsgi_wraps, upgrades, error, slept, drivername, schema>>

\* mutant of GatePoll: the wait gives up at the second poll
GatePoll_bounded ==
    /\ pc = "gate"
    /\ IF import_in_progress /\ slept = SleepSeconds
       THEN pc' = "aborted" /\ error' = "TimeoutError"
       ELSE /\ pc' = IF import_in_progress THEN "sleep" ELSE "loaders"
            /\ UNCHANGED error
    /\ Ran("gate")
    /\ UNCHANGED <<extVars, tplVars, import_flag, reverse_proxy, ctf_version,
                   wsgi_wraps, upgrades, slept, drivername, schema>>

\* line 99: one evaluation of the loop condition
GatePoll ==
    /\ pc = "gate"
    /\ pc' = IF import_in_progress THEN "sleep" ELSE "loaders"
    /\ Ran("gate")
    /\ UNCHANGED <<extVars, tplVars, import_flag, reverse_proxy, ctf_version,
                   wsgi_wraps, upgrades, error, slept, drivername, schema>>

\* lines 100-101: print and time.sleep(5), then back to the loop condition
GateSleep ==
    /\ pc = "sleep"
    /\ slept' = SleepSeconds
    /\ pc' = "gate"
    /\ UNCHANGED <<extVars, tplVars, import_flag, reverse_proxy, ctf_version,
                   wsgi_wraps, upgrades, error, drivername, schema,
                   ran_locked>>

\* lines 103-108: the loader chain is built and attached
BuildLoaders ==
    /\ pc = "loaders"
    /\ Ran("loaders")
    /\ IF "overridden_templates" \notin supplied
       THEN \* line 104: the app object has no attribute overridden_templates
            /\ error' = "AttributeError"
            /\ pc' = "aborted"
            /\ UNCHANGED loader
       ELSE IF "ThemeLoader" \notin supplied
       THEN \* line 105: the name ThemeLoader is not defined
            /\ error' = "NameError"
            /\ pc' = "aborted"
            /\ UNCHANGED loader
       ELSE /\ loader' = Chain
            /\ pc' = "database"
            /\ UNCHANGED error
    /\ UNCHANGED <<extVars, ctf_theme, overridden, disk, auto_reload, cache,
                   next_id, last, import_flag, reverse_proxy, ctf_version,
                   wsgi_wraps, upgrades, slept, drivername, schema>>

\* lines 110-118: create_database, db.init_app, migrations.init_app, Babel
InitDatabase ==
    /\ pc = "database"
    /\ pc' = "schema"
    /\ Ran("database")
    /\ UNCHANGED <<extVars, tplVars, import_flag, reverse_proxy, ctf_version,
                   wsgi_wraps, upgrades, error, slept, drivername, schema>>

\* lines 120-124: create the schema and stamp it, or run the migrations
InitSchema ==
    /\ pc = "schema"
    /\ schema' = IF StartsWith(drivername, "sqlite")
                 THEN "create_all+stamp" ELSE "upgrade"
    /\ pc' = "marshmallow"
    /\ Ran("schema")
    /\ UNCHANGED <<extVars, tplVars, import_flag, reverse_proxy, ctf_version,
                   wsgi_wraps, upgrades, error, slept, drivername>>

\* lines 126-131
InitMarshmallow ==
    /\ pc = "marshmallow"
    /\ pc' = "proxy"
    /\ Ran("marshmallow")
    /\ UNCHANGED <<extVars, tplVars, import_flag, reverse_proxy, ctf_version,
                   wsgi_wraps, upgrades, error, slept, drivername, schema>>

\* werkzeug ProxyFix(app, x_for=1, x_proto=1, x_host=0, x_port=0, x_prefix=0)
\* called with the positional arguments args
ProxyFix(args) ==
    LET arg(i, default) == IF i <= Len(args) THEN args[i] ELSE default
    IN  [x_for |-> arg(1, 1), x_proto |-> arg(2, 1), x_host |-> arg(3, 0),
         x_port |-> arg(4, 0), x_prefix |-> arg(5, 0)]

\* line 135: the list of int(i) for i in reverse_proxy.split(",") when the
\* value is a str, None (here <<"None">>) otherwise
proxyfix_args(rp) ==
    IF rp.kind = "str"
    THEN LET parts == split(rp.value, ",")
         IN  [i \in 1..Len(parts) |-> int(parts[i])]
    ELSE <<"None">>

\* lines 133-136
ApplyReverseProxy ==
    /\ pc = "proxy"
    /\ Ran("proxy")
    /\ IF reverse_proxy.kind # "absent" /\ reverse_proxy.value # ""
       THEN LET args == proxyfix_args(reverse_proxy)
            IN  IF args = <<"None">>
                THEN \* ProxyFix(app.wsgi_app, *None) raises TypeError
                     /\ error' = "TypeError"
                     /\ pc' = "aborted"
                     /\ UNCHANGED wsgi_wraps
                ELSE /\ wsgi_wraps' = Append(wsgi_wraps, ProxyFix(args))
                     /\ pc' = "version"
                     /\ UNCHANGED error
       ELSE /\ pc' = "version"
            /\ UNCHANGED <<wsgi_wraps, error>>
    /\ UNCHANGED <<extVars, tplVars, import_flag, reverse_proxy, ctf_version, upgrades,
                   slept, drivername, schema>>

\* line 139: version and StrictVersion(version) < StrictVersion(__version__)
NeedsUpgrade(version) ==
    /\ ~Falsy(version)
    /\ VersionLess(StrictVersion(version), StrictVersion(version_string))

\* run_upgrade()
run_upgrade == upgrades' = upgrades + 1

\* utils.set_config(key, value) is called
Logged(key, value) == set_calls' = Append(set_calls, <<key, value>>)


\* mutant of CheckVersion: the running version is stored whenever no upgrade
\* is due
CheckVersion_always_stamps ==
    /\ pc = "version"
    /\ Ran("version")
    /\ IF ~Falsy(ctf_version) /\ ~StrictVersion(ctf_version).ok
       THEN /\ error' = "ValueError"
            /\ pc' = "aborted"
            /\ UNCHANGED <<ctf_version, upgrades, set_calls>>
       ELSE IF NeedsUpgrade(ctf_version) /\ "run_upgrade" \notin supplied
       THEN /\ error' = "NameError"
            /\ pc' = "aborted"
            /\ UNCHANGED <<ctf_version, upgrades, set_calls>>
       ELSE /\ IF NeedsUpgrade(ctf_version)
               THEN run_upgrade /\ UNCHANGED <<ctf_version, set_calls>>
               ELSE /\ ctf_version' = version_string
                    /\ Logged("ctf_version", version_string)
                    /\ UNCHANGED upgrades
            /\ pc' = "theme"
            /\ UNCHANGED error
    /\ UNCHANGED <<raceVars, reqVars, update_result, inited, supplied, tplVars,
                   import_flag, reverse_proxy, wsgi_wraps, slept,
                   drivername, schema>>

\* lines 138-142
CheckVersion ==
    /\ pc = "version"
    /\ Ran("version")
    /\ IF ~Falsy(ctf_version) /\ ~StrictVersion(ctf_version).ok
       THEN \* StrictVersion(version) raises ValueError
            /\ error' = "ValueError"
            /\ pc' = "aborted"
            /\ UNCHANGED <<ctf_version, upgrades, set_calls>>
       ELSE IF NeedsUpgrade(ctf_version) /\ "run_upgrade" \notin supplied
       THEN \* line 140: the name run_upgrade is not defined
            /\ error' = "NameError"
            /\ pc' = "aborted"
            /\ UNCHANGED <<ctf_version, upgrades, set_calls>>
       ELSE /\ IF NeedsUpgrade(ctf_version)
               THEN run_upgrade /\ UNCHANGED <<ctf_version, set_calls>>
               ELSE IF Falsy(ctf_version)
               THEN /\ ctf_version' = version_string
                    /\ Logged("ctf_version", version_string)
                    /\ UNCHANGED upgrades
               ELSE UNCHANGED <<ctf_version, upgrades, set_calls>>
            /\ pc' = "theme"
            /\ UNCHANGED error
    /\ UNCHANGED <<raceVars, reqVars, update_result, inited, supplied, tplVars,
                   import_flag, reverse_proxy, wsgi_wraps, slept,
                   drivername, schema>>


\* mutant of DefaultTheme: the default is stored whatever is configured
DefaultTheme_overwrites ==
    /\ pc = "theme"
    /\ Ran("theme")
    /\ ctf_theme' = "core-beta"
    /\ Logged("ctf_theme", "core-beta")
    /\ pc' = "update_check"
    /\ UNCHANGED <<raceVars, reqVars, update_result, inited, supplied,
                   overridden, disk,
                   loader, auto_reload, cache, next_id, last, import_flag,
                   reverse_proxy, ctf_version, wsgi_wraps, upgrades, error,
                   slept, drivername, schema>>

\* lines 144-145
DefaultTheme ==
    /\ pc = "theme"
    /\ Ran("theme")
    /\ IF Falsy(ctf_theme)
       THEN ctf_theme' = "core-beta" /\ Logged("ctf_theme", "core-beta")
       ELSE UNCHANGED <<ctf_theme, set_calls>>
    /\ pc' = "update_check"
    /\ UNCHANGED <<raceVars, reqVars, update_result, inited, supplied,
                   overridden, disk,
                   loader, auto_reload, cache, next_id, last, import_flag,
                   reverse_proxy, ctf_version, wsgi_wraps, upgrades, error,
                   slept, drivername, schema>>

\* CTFd.utils.updates.update_check as create_app sees it: the call returns
\* after the update server was reached ("ok"), returns after the attempt
\* failed ("failed"), or raises ("raised"); what the function does with a
\* failure is not in the file
UpdateCheckOutcomes == {"ok", "failed", "raised"}

\* line 147: update_check(force=True); its result is not looked at, and
\* there is no try around the call: an exception it raises ends create_app
UpdateCheck ==
    /\ pc = "update_check"
    /\ Ran("update_check")
    /\ \E r \in UpdateCheckOutcomes :
          /\ update_result' = r
          /\ IF r = "raised"
             THEN pc' = "aborted" /\ error' = "Exception(update_check)"
             ELSE pc' = "init" /\ UNCHANGED error
    /\ UNCHANGED <<raceVars, reqVars, inited, set_calls, supplied, tplVars,
                   import_flag,
                   reverse_proxy, ctf_version, wsgi_wraps, upgrades, slept,
                   drivername, schema>>

\* lines 149-155: request processors, template filters and globals, logs,
\* events, plugins, CLI
InitSubsystems ==
    /\ pc = "init"
    /\ Ran("init")
    /\ inited' = Subsystems
    /\ pc' = "route"
    /\ UNCHANGED <<raceVars, reqVars, update_result, set_calls, supplied, tplVars,
                   import_flag,
                   reverse_proxy, ctf_version, wsgi_wraps, upgrades, error,
                   slept, drivername, schema>>

\* lines 157-162: the landing route is registered and the app is returned
RegisterRoute ==
    /\ pc = "route"
    /\ Ran("route")
    /\ pc' = "serving"
    /\ UNCHANGED <<extVars, tplVars, import_flag, reverse_proxy, ctf_version,
                   wsgi_wraps, upgrades, error, slept, drivername, schema>>

\* an importer elsewhere sets the shared flag ...
ImportBegin ==
    /\ ~import_flag
    /\ import_flag' = TRUE
    /\ UNCHANGED <<extVars, tplVars, pc, reverse_proxy, ctf_version, wsgi_wraps,
                   upgrades, error, slept, drivername, schema, ran_locked>>

\* ... and clears it
ImportEnd ==
    /\ import_flag
    /\ import_flag' = FALSE
    /\ UNCHANGED <<extVars, tplVars, pc, reverse_proxy, ctf_version, wsgi_wraps,
                   upgrades, error, slept, drivername, schema, ran_locked>>

CreateApp ==
    \/ LoadConfig
    \/ GatePoll
    \/ GateSleep
    \/ BuildLoaders
    \/ InitDatabase
    \/ InitSchema
    \/ InitMarshmallow
    \/ ApplyReverseProxy
    \/ CheckVersion
    \/ DefaultTheme
    \/ UpdateCheck
    \/ InitSubsystems
    \/ RegisterRoute

InitApp ==
    /\ ctf_theme \in StoredThemes
    /\ overridden = EmptyMap
    /\ disk = [p \in DiskPaths |-> IF p \in InitialFiles THEN 1 ELSE 0]
    /\ loader = NoLoader
    /\ auto_reload = FALSE
    /\ cache = EmptyMap
    /\ next_id = 1
    /\ last = NoCall
    /\ pc = "config"
    /\ import_flag \in BOOLEAN
    /\ reverse_proxy \in ReverseProxyValues
    /\ ctf_version \in StoredVersions
    /\ wsgi_wraps = <<>>
    /\ upgrades = 0
    /\ error = ""
    /\ slept = 0
    /\ drivername \in Drivers
    /\ schema = ""
    /\ ran_locked = ""
    /\ update_result = ""
    /\ inited = <<>>
    /\ set_calls = <<>>
    /\ supplied \in SUBSET MissingNames
    /\ ExtIdle

NextApp ==
    \/ CreateApp
    \/ ImportBegin
    \/ ImportEnd

SpecApp == InitApp /\ [][NextApp]_vars

\* one deployment: nothing stored yet, no reverse proxy, a file database
InitGate ==
    /\ InitApp
    /\ ctf_theme = Unset
    /\ ctf_version = Unset
    /\ supplied = MissingNames
    /\ reverse_proxy.kind = "absent"
    /\ drivername = "sqlite"

\* create_app is a running call: it takes its next step eventually
SpecAppFair == InitGate /\ [][NextApp]_vars /\ WF_vars(CreateApp)

----------------------------------------------------------------------------
(* CTFdRequest, lines 36-39 *)

\* s.lstrip(c) and s.rstrip(c) for a one-character c
RECURSIVE lstrip(_, _)
lstrip(s, c) ==
    IF Len(s) > 0 /\ SubSeq(s, 1, 1) = c
    THEN lstrip(SubSeq(s, 2, Len(s)), c) ELSE s

RECURSIVE rstrip(_, _)
rstrip(s, c) ==
    IF Len(s) > 0 /\ SubSeq(s, Len(s), Len(s)) = c
    THEN rstrip(SubSeq(s, 1, Len(s) - 1), c) ELSE s

\* what the hosting layer puts in the WSGI environ
ScriptNames == {"", "/", "/ctf", "/ctf/", "/a/b", "/x"}
PathInfos == {"", "/", "/x", "x", "//x", "/x/", "/ctf/x", "/a/b", "/ctf"}
Environs == [SCRIPT_NAME : ScriptNames, PATH_INFO : PathInfos]

\* line 38: werkzeug's Request.__init__ takes script_root from SCRIPT_NAME
\* without trailing slashes and path from PATH_INFO with one leading slash
BaseRequest(env) ==
    [script_root |-> rstrip(env.SCRIPT_NAME, "/"),
     path |-> "/" \o lstrip(env.PATH_INFO, "/")]


\* mutant of effective_path: the prefix is put in front twice
effective_path_twice(script_root, path) == script_root \o script_root \o path

\* line 39: self.script_root + self.path
effective_path(script_root, path) == script_root \o path

\* app.request_class(environ): CTFdRequest.__init__, lines 37-39; base_path
\* keeps the path line 38 produced and rewrites counts the assignments of
\* line 39 to this object
CTFdRequest_init(env) ==
    /\ pc = "serving"
    /\ environ' = env
    /\ LET base == BaseRequest(env)
       IN  request' = [script_root |-> base.script_root,
                       path |-> effective_path(base.script_root, base.path),
                       base_path |-> base.path,
                       rewrites |-> 1]
    /\ seen' = ""
    /\ UNCHANGED <<tplVars, appVars, bootVars, raceVars>>

\* routing and URL generation consult request.path
ReadPath ==
    /\ pc = "serving"
    /\ request # NoRequest
    /\ seen' = request.path
    /\ UNCHANGED <<tplVars, appVars, bootVars, raceVars, environ, request>>

\* one application, its template environment attached, before any request
InitRequest ==
    /\ Init
    /\ ctf_theme = "core-beta"
    /\ loader = Chain
    /\ auto_reload = FALSE

NextRequest ==
    \/ \E env \in Environs : CTFdRequest_init(env)
    \/ ReadPath

SpecRequest == InitRequest /\ [][NextRequest]_vars

----------------------------------------------------------------------------
(* Claims about the template resolution engine, checked under Spec and     *)
(* SpecRace. last is the call of _load_template that ended by the step     *)
(* into the state, with what was observed of it; it is NoCall after any    *)
(* other step. The claims are stated on the steps of a call, so they say   *)
(* the same thing whatever runs between two of its steps.                  *)

Resolved == last.out = "template"
AdminName(n) == StartsWith(n, "admin/")
FromOverride(t, n) ==
    /\ t.origin = "override"
    /\ n \in DOMAIN overridden
    /\ t.source = overridden[n]

\* thread th takes this step of its call
Moves(th) == pending'[th].at # pending[th].at

\* this step is line 62: a thread makes a call
CallMade ==
    \/ last'.out # "none" /\ pending' = pending
    \/ \E th \in Threads : pending[th].at = "idle" /\ pending'[th].at # "idle"

\* C1 as stated: whenever the override table has an entry for the name when
\* the call is made, the template returned is compiled from that override
\* source, also when the name was resolved and cached before the entry was
\* inserted.
C1_OverrideAlwaysWins ==
    (Resolved /\ last.had_override) => FromOverride(last.tpl, last.name)

\* C1 as amended: whenever the override table has an entry for the name when
\* the call is made and the call asks the loader chain (it is not served by
\* an honoured cache hit), the call succeeds and the template returned is
\* compiled from the override source, whatever the theme on disk provides
\* for the name.
C1_OverrideWinsOnLoad ==
    (last.loaded /\ last.had_override)
        => (Resolved /\ FromOverride(last.tpl, last.name))

\* C1 witness: a call that went to the loader chain for a name that both
\* the override table and the active theme on disk provide.
C1_Witness ==
    /\ last.loaded
    /\ last.had_override
    /\ ThemeLoaderFinds(last.name, ctf_theme)
    /\ FromOverride(last.tpl, last.name)

\* C2: a resolution of a name outside admin/ never returns the template this
\* name was compiled to from another theme than the one the call read as the
\* active theme.
C2_NoStaleTheme ==
    (Resolved /\ ~AdminName(last.name) /\ last.tpl.origin = "theme"
        /\ last.tpl.name = last.name)
        => last.tpl.theme = last.theme

\* C3: a resolution of a name outside admin/ that read the theme T uses the
\* cache entry "T/name", which is in the cache when the call returns; every
\* other entry, the entry "T2/name" of another theme T2 among them, is left
\* exactly as it was; and two entries never hold the same instance.
C3_OneEntryPerTheme ==
    /\ [][\A th \in Threads :
            (Moves(th) /\ last'.out = "template" /\ ~AdminName(last'.name))
            => LET K == pending[th].key
               IN  /\ K[2] = pending[th].theme \o "/" \o last'.name
                   /\ K \in DOMAIN cache'
                   /\ \A k \in DOMAIN cache \ {K} :
                        k \in DOMAIN cache' /\ cache'[k] = cache[k]]_vars
    /\ [](\A k1, k2 \in DOMAIN cache :
            k1 # k2 => cache[k1].id # cache[k2].id)

\* C3 witness: the same name has been resolved under both themes and the
\* cache holds the two entries.
C3_Witness ==
    /\ Resolved
    /\ last.name = "x.html"
    /\ \A t \in Themes : <<Chain, t \o "/" \o "x.html">> \in DOMAIN cache
    /\ cache[<<Chain, "core-beta/x.html">>].id
         # cache[<<Chain, "admin/x.html">>].id

\* C4: a resolution of an admin/ name builds the key (loader, name) without
\* reading the theme, whatever the active theme is and was, finds its entry
\* under that key, and touches no other entry.
C4_AdminKeyWithoutTheme ==
    /\ []((Resolved /\ AdminName(last.name))
            => /\ last.key = <<Chain, last.name>>
               /\ last.theme = ""
               /\ last.key \in DOMAIN cache)
    /\ [][\A th \in Threads :
            (Moves(th) /\ AdminName(pending[th].name))
            => \A k \in DOMAIN cache \ {<<Chain, pending[th].name>>} :
                  k \in DOMAIN cache' /\ cache'[k] = cache[k]]_vars

\* C4 witness: an admin/ name resolved under one theme is found in the cache
\* again after the theme was changed.
C4_Witness ==
    /\ Resolved
    /\ AdminName(last.name)
    /\ ~last.loaded
    /\ last.key = <<Chain, last.name>>
    /\ last.tpl.name = last.name
    /\ last.tpl.origin = "theme"
    /\ last.tpl.theme # ctf_theme

\* C5 as stated: with auto-reload disabled an entry stored in the cache is
\* never replaced, so every later resolution returns that instance, and the
\* loader chain is not invoked for a key that has an entry.
C5_CachedInstanceReturned ==
    [][~auto_reload
        => /\ \A k \in DOMAIN cache :
                k \in DOMAIN cache' /\ cache'[k].id = cache[k].id
           /\ (last'.out = "template" /\ last'.loaded)
                => last'.key \notin DOMAIN cache]_vars

\* the places of a call inside line 81
LoadStages == {"load", "dict", "theme", "file", "plugins"}

\* the loader thread th is asking at this step has the name of the call
SourceFound(th) ==
    LET f == pending[th]
    IN  \/ f.at = "dict" /\ DictLoaderFinds(f.name)
        \/ f.at = "file" /\ ThemeLoaderFinds(f.name, f.ltheme)
        \/ f.at = "plugins" /\ PluginLoaderFinds(f.name)

\* C5 as amended: with auto-reload disabled, a resolution whose lookup of
\* line 73 finds an entry under its key returns that identical instance
\* without invoking the loader chain and without changing which instance a
\* key holds; a resolution whose lookup finds none invokes the loader chain
\* once: as soon as a loader it asks has the name, exactly one instance is
\* compiled, which is stored under the key and returned; if no loader has
\* it, or the loader was removed, the call ends with that exception,
\* nothing is compiled and nothing is stored.
C5_FoundInstanceReturned ==
    [][~auto_reload
        => \A th \in Threads : Moves(th) =>
             LET f == pending[th]
                 f2 == pending'[th]
             IN  /\ f.at = "get"
                     => f2.tpl = IF f.key \in DOMAIN cache
                                 THEN cache[f.key] ELSE NoTemplate
                 /\ f.at = "check"
                     => f2.at = IF f.tpl # NoTemplate THEN "hit" ELSE "load"
                 /\ f.at = "hit"
                     => /\ last'.out = "template"
                        /\ last'.tpl.id = f.tpl.id
                        /\ ~last'.loaded
                        /\ next_id' = next_id
                        /\ DOMAIN cache' = DOMAIN cache
                        /\ \A k \in DOMAIN cache : cache'[k].id = cache[k].id
                 /\ f.at \in LoadStages
                     => /\ cache' = cache
                        /\ IF SourceFound(th)
                           THEN /\ f2.at = "store"
                                /\ f2.tpl.id = next_id
                                /\ f2.key = f.key
                                /\ next_id' = next_id + 1
                           ELSE /\ next_id' = next_id
                                /\ \/ f2.at \in LoadStages /\ f2.tpl = NoTemplate
                                   \/ /\ f2.at = "idle"
                                      /\ last'.out \in {"TemplateNotFound",
                                                        "AttributeError"}
                                      /\ last'.tpl = NoTemplate
                 /\ f.at = "store"
                     => /\ f2.at = "idle"
                        /\ last'.out = "template"
                        /\ last'.loaded
                        /\ last'.tpl = f.tpl
                        /\ cache'[f.key] = f.tpl
                        /\ next_id' = next_id]_vars

\* C5 witness: with auto-reload disabled, a name is resolved again and the
\* call returns the instance the cache holds under its key.
C5_Witness ==
    /\ ~auto_reload
    /\ Resolved
    /\ ~last.loaded
    /\ last.tpl.name = last.name
    /\ last.key \in DOMAIN cache
    /\ cache[last.key].id = last.tpl.id

\* C10 as stated: a call made without a loader fails with a
\* ConfigurationError and leaves the cache as it was.
C10_ConfigurationError ==
    [][(loader = NoLoader /\ CallMade)
        => (last'.out = "ConfigurationError" /\ cache' = cache)]_vars

\* C10 as amended: a call made without a loader fails at once with a
\* TypeError ("no loader for this environment specified"), for every name
\* and every content of the cache, without consulting the loader chain and
\* leaving the cache unchanged.
C10_TypeErrorWithoutLoader ==
    [][(loader = NoLoader /\ CallMade)
        => (/\ last'.out = "TypeError"
            /\ ~last'.loaded
            /\ last'.cache_same
            /\ cache' = cache
            /\ pending' = pending)]_vars

\* C10 witness: the call fails without a loader while the cache holds an
\* entry for the name under the loader chain that was attached before.
C10_Witness ==
    /\ loader = NoLoader
    /\ last.out = "TypeError"
    /\ <<Chain, cache_name(last.name, ctf_theme)>> \in DOMAIN cache

----------------------------------------------------------------------------
(* Claims about create_app, checked under SpecApp and SpecAppFair *)

BeforeGate == {"config", "gate", "sleep"}
AfterProxy == {"version", "theme", "update_check", "init", "route", "serving"}

\* the stored versions of StoredVersions that are older than 3.7.5
OlderStored == {"3.7.0", "3.7", "3.7.5b1", "3.7.0\n"}

\* C6: the version step calls the upgrade routine (where the rest of CTFd
\* provides it) once and goes on to the next step when the stored version is
\* set and older than the running one, and does not call it otherwise; no
\* other step calls it.
C6_UpgradeOnceIfOlder ==
    /\ [][(pc = "version" /\ pc' # pc)
            => IF ctf_version \in OlderStored /\ "run_upgrade" \in supplied
               THEN upgrades' = upgrades + 1 /\ pc' = "theme" /\ error' = ""
               ELSE upgrades' = upgrades]_vars
    /\ [][pc # "version" => upgrades' = upgrades]_vars
    /\ [](upgrades <= 1)

\* C6 witness: start-up has completed with the stored version 3.7.0 and one
\* call of the upgrade routine.
C6_Witness ==
    /\ pc = "serving"
    /\ ctf_version = "3.7.0"
    /\ upgrades = 1

\* the hop counts REVERSE_PROXY configures, in their given order
ConfiguredHops(rp) ==
    CASE rp.kind = "tuple" -> rp.value
      [] rp.value = "1,1,0,0" -> <<1, 1, 0, 0>>
      [] rp.value = "2,1" -> <<2, 1>>
      [] OTHER -> <<>>

HopsOf(wrap) == <<wrap.x_for, wrap.x_proto, wrap.x_host, wrap.x_port>>

\* C7: for every accepted form of REVERSE_PROXY the proxy step raises no
\* error; the entry point is left unwrapped when the value is absent and is
\* wrapped once with the configured hop counts when it is a string or a
\* 4-tuple.
C7_ReverseProxyAccepted ==
    /\ ~(pc = "aborted" /\ error = "TypeError")
    /\ pc \in AfterProxy =>
         IF reverse_proxy.kind = "absent" THEN wsgi_wraps = <<>>
         ELSE /\ Len(wsgi_wraps) = 1
              /\ \A i \in 1..Len(ConfiguredHops(reverse_proxy)) :
                    HopsOf(wsgi_wraps[1])[i] = ConfiguredHops(reverse_proxy)[i]

\* C8 as stated: no guarded start-up step executes while the import flag is
\* set.
C8_NeverRunsDuringImport == ran_locked = ""

\* C8 as amended: create_app leaves the gate only by a poll that observes
\* the import flag cleared, and goes on to build the loader chain from there;
\* the flag is not read again after that poll.
C8_GateLeftOnlyWhenClear ==
    [][(pc \in BeforeGate /\ pc' \notin BeforeGate)
        => (pc = "gate" /\ ~import_flag /\ pc' = "loaders")]_vars

\* C8 witness: create_app found the flag set, slept, passed the gate once the
\* flag was cleared and has initialized the persistent store.
C8_Witness ==
    /\ pc = "schema"
    /\ slept = SleepSeconds
    /\ ran_locked = ""

\* C9: a poll that observes the flag set is followed by the sleep of the
\* fixed delay and another poll, never by an error or a later step; and if
\* the flag is cleared for good, create_app gets past the gate.
C9_GateBlocksWithoutBound ==
    /\ [][(pc = "gate" /\ import_flag /\ pc' # pc)
            => (pc' = "sleep" /\ error' = "")]_vars
    /\ [][(pc = "sleep" /\ pc' # pc)
            => (pc' = "gate" /\ slept' = SleepSeconds /\ error' = "")]_vars
    /\ (<>[](~import_flag) => <>(pc \notin BeforeGate))

\* C9 witness: create_app polls again, after the sleep, while the flag is
\* still set.
C9_Witness ==
    /\ pc = "gate"
    /\ slept = SleepSeconds
    /\ import_flag

----------------------------------------------------------------------------
(* Further claims about the template resolution engine *)

\* C11: inside line 81 a loader that does not have the name hands over to
\* the next loader of the chain, and when the last one does not have it the
\* call ends with TemplateNotFound carrying the name the caller asked for; a
\* call that ends with TemplateNotFound ends there, returns no template, and
\* no step it took has changed the compilation cache.
C11_NotFoundPropagates ==
    [][\A th \in Threads : Moves(th) =>
         LET f == pending[th]
             f2 == pending'[th]
         IN  /\ (f.at = "dict" /\ ~DictLoaderFinds(f.name))
                 => f2.at = "theme"
             /\ (f.at = "file" /\ ~ThemeLoaderFinds(f.name, f.ltheme))
                 => f2.at = "plugins"
             /\ (f.at = "plugins" /\ ~PluginLoaderFinds(f.name))
                 => last'.out = "TemplateNotFound"
             /\ last'.out = "TemplateNotFound"
                 => /\ f.at = "plugins"
                    /\ ~PluginLoaderFinds(f.name)
                    /\ last'.name = f.name
                    /\ last'.raised = f.name
                    /\ last'.loaded
                    /\ last'.tpl = NoTemplate
                    /\ f2 = NoPending
             /\ f.at \notin {"hit", "store"} => cache' = cache]_vars

\* C11 witness: with another template already cached, a call for a name
\* nobody provides has just ended with TemplateNotFound for that name.
C11_Witness ==
    /\ last.out = "TemplateNotFound"
    /\ last.name = "missing.html"
    /\ last.raised = "missing.html"
    /\ DOMAIN cache # {}

\* C14: inside line 81 the sources are consulted in the order override
\* table, theme loader, plugin loader, each judged on what it holds when it
\* is consulted, and the first that has the name compiles the template the
\* call returns, from that source alone: the override table is consulted
\* first and wins whenever it holds the name; the theme's file is taken
\* only after the table did not hold the name; the plugin loader is
\* consulted only after the theme the theme loader read had no file for the
\* name, and it resolves only plugins/ names.
C14_FirstSourceWins ==
    /\ [][\A th \in Threads : Moves(th) =>
            LET f == pending[th]
                f2 == pending'[th]
                n == f.name
            IN  /\ (f.at = "load" /\ f2.at # "idle") => f2.at = "dict"
                /\ f.at = "dict"
                    => IF n \in DOMAIN overridden
                       THEN /\ f2.at = "store"
                            /\ f2.tpl.name = n
                            /\ f2.tpl.origin = "override"
                            /\ f2.tpl.source = overridden[n]
                            /\ f2.tpl.theme = ""
                            /\ f2.tpl.mtime = 0
                       ELSE f2.at = "theme"
                /\ f.at = "theme"
                    => (f2.at = "file" /\ f2.ltheme = ctf_theme)
                /\ f.at = "file"
                    => IF ThemeLoaderFinds(n, f.ltheme)
                       THEN /\ f2.at = "store"
                            /\ f2.tpl.name = n
                            /\ f2.tpl.origin = "theme"
                            /\ f2.tpl.theme = Str(f.ltheme)
                            /\ f2.tpl.mtime = disk[ThemePath(Str(f.ltheme), n)]
                            /\ f2.tpl.source = ""
                       ELSE f2.at = "plugins"
                /\ f.at = "plugins"
                    => IF PluginLoaderFinds(n)
                       THEN /\ f2.at = "store"
                            /\ f2.tpl.name = n
                            /\ f2.tpl.origin = "plugin"
                            /\ f2.tpl.theme = ""
                            /\ f2.tpl.source = ""
                            /\ StartsWith(n, "plugins/")
                            /\ ~ThemeLoaderFinds(n, f.ltheme)
                       ELSE last'.out = "TemplateNotFound"
                /\ f.at = "store"
                    => (last'.loaded /\ last'.tpl = f.tpl)]_vars
    /\ []((Resolved /\ last.loaded)
            => /\ last.tpl.name = last.name
               /\ last.had_override => last.tpl.origin = "override"
               /\ last.tpl.origin = "override"
                    => FromOverride(last.tpl, last.name)
               /\ last.tpl.origin = "plugin"
                    => (StartsWith(last.name, "plugins/")
                        /\ PluginLoaderFinds(last.name)
                        /\ last.name \notin DOMAIN overridden))

\* C14 witness: a plugins/ name that both the active theme and the plugin
\* loader have was just compiled, from the theme's file.
C14_Witness ==
    /\ Resolved
    /\ last.loaded
    /\ last.name = "plugins/p.html"
    /\ PluginLoaderFinds(last.name)
    /\ last.tpl.origin = "theme"

\* the identities of the template instances in the cache
CachedIds == {cache[k].id : k \in DOMAIN cache}

\* C15 as stated: no call returns a template that is not up to date while
\* auto-reload is enabled.
C15_StaleNeverReturned ==
    (Resolved /\ auto_reload) => is_up_to_date(last.tpl)

\* C15 as amended: a call returns the template it found in the cache only
\* if, when it checks (lines 74-75), auto-reload is off or the template
\* reports itself up to date; with auto-reload on and a template that is
\* not up to date at the check it asks the loader chain again, and the
\* newly compiled instance replaces the entry under the key that was looked
\* up and is returned.
C15_StaleEntryReloaded ==
    [][\A th \in Threads : Moves(th) =>
         LET f == pending[th]
             f2 == pending'[th]
         IN  /\ (f.at = "check" /\ f2.at = "hit")
                 => /\ f.tpl # NoTemplate
                    /\ (~auto_reload \/ is_up_to_date(f.tpl))
                    /\ f2.tpl = f.tpl
             /\ (f.at = "check" /\ auto_reload /\ f.tpl # NoTemplate
                   /\ ~is_up_to_date(f.tpl))
                 => f2.at = "load"
             /\ (last'.out = "template" /\ ~last'.loaded) => f.at = "hit"
             /\ (f.at \in LoadStages /\ f2.at = "store")
                 => /\ f2.tpl.id \notin CachedIds
                    /\ f2.key = f.key
             /\ f.at = "store"
                 => /\ cache'[f.key] = f.tpl
                    /\ last'.tpl = f.tpl
                    /\ DOMAIN cache' = DOMAIN cache \cup {f.key}
                    /\ \A k \in DOMAIN cache \ {f.key} :
                          cache'[k] = cache[k]]_vars

\* C15 witness: with auto-reload on, the theme file of a cached template was
\* rewritten and the next call compiled it again, replacing the entry.
C15_Witness ==
    /\ auto_reload
    /\ Resolved
    /\ last.loaded
    /\ last.name = "x.html"
    /\ ~last.was_empty
    /\ last.tpl.id = 2
    /\ last.tpl.mtime = 2
    /\ DOMAIN cache = {<<Chain, "core-beta/x.html">>}
    /\ cache[<<Chain, "core-beta/x.html">>] = last.tpl

\* C18: a call served from the cache returns the instance its lookup found;
\* globals given to the call are added to that instance in place, so the
\* cache entry that holds it shows them to later calls; without globals the
\* instance is returned as it is; and the cache keeps its keys and the
\* instance under each key.
C18_HitMergesGlobalsInPlace ==
    [][\A th \in Threads : Moves(th) =>
         LET f == pending[th]
         IN  /\ (f.at = "get" /\ f.key \in DOMAIN cache)
                 => pending'[th].tpl = cache[f.key]
             /\ f.at = "hit"
                 => /\ last'.out = "template"
                    /\ ~last'.loaded
                    /\ last'.tpl.id = f.tpl.id
                    /\ last'.tpl.globals = f.tpl.globals \cup f.globals
                    /\ [last'.tpl EXCEPT !.globals = f.tpl.globals] = f.tpl
                    /\ (f.globals = {} => cache' = cache)
                    /\ DOMAIN cache' = DOMAIN cache
                    /\ \A k \in DOMAIN cache :
                          /\ cache'[k].id = cache[k].id
                          /\ cache[k].id = f.tpl.id => cache'[k] = last'.tpl
                          /\ cache[k].id # f.tpl.id => cache'[k] = cache[k]
                    /\ next_id' = next_id]_vars

\* C18 witness: a call with globals was served from the cache and the cached
\* instance, which had none, now carries them.
C18_Witness ==
    /\ Resolved
    /\ ~last.loaded
    /\ last.globals = {"g"}
    /\ ~last.cache_same
    /\ last.tpl.globals = {"g"}
    /\ \E k \in DOMAIN cache : cache[k] = last.tpl

\* C19: the cache key is injective: a call is served from, or stores over,
\* a cache entry only if that entry was made by a call for the same name
\* and, unless the name is an admin/ name, under the same theme.
C19_KeyInjective ==
    [][\A th \in Threads : Moves(th) =>
         LET f == pending[th]
         IN  /\ f.at = "hit"
                 => (f.tpl.name = f.name /\ f.tpl.under = f.theme)
             /\ (f.at = "store" /\ f.key \in DOMAIN cache)
                 => (/\ cache[f.key].name = f.name
                     /\ cache[f.key].under = f.theme)]_vars

----------------------------------------------------------------------------
(* A claim about concurrent theme changes *)

\* C20: every cache entry that holds a theme file of a name without the
\* admin/ prefix was read from the directory of the theme its key names: the
\* theme read for the cache name and the theme the theme loader used are the
\* same.
C20_EntryMatchesKeyTheme ==
    \A k \in DOMAIN cache :
        (cache[k].origin = "theme" /\ ~AdminName(cache[k].name))
        => (/\ cache[k].theme = cache[k].under
            /\ k[2] = cache[k].theme \o "/" \o cache[k].name)

----------------------------------------------------------------------------
(* Further claims about create_app, checked under SpecApp *)

\* the keys create_app called utils.set_config with
KeysSet == {set_calls[i][1] : i \in 1..Len(set_calls)}

\* C16 as stated: when ctf_version is unset the version step stores the
\* running version and calls no upgrade; a ctf_version that is set is never
\* written by any step of create_app.
C16_VersionStampedOnlyIfUnset ==
    /\ [][(pc = "version" /\ pc' # pc /\ ctf_version = Unset)
            => (/\ ctf_version' = "3.7.5"
                /\ set_calls' = <<<<"ctf_version", "3.7.5">>>>
                /\ upgrades' = upgrades
                /\ pc' = "theme")]_vars
    /\ [][ctf_version # Unset
            => (/\ ctf_version' = ctf_version
                /\ "ctf_version" \notin KeysSet
                      => (\A i \in 1..Len(set_calls') :
                            set_calls'[i][1] # "ctf_version"))]_vars

\* C16 as amended: when the stored ctf_version is unset or the empty string
\* the version step stores the running version and calls no upgrade; a
\* stored ctf_version that is not empty is never written by any step of
\* create_app.
C16_VersionStampedOnlyIfEmpty ==
    /\ [][(pc = "version" /\ pc' # pc /\ ctf_version \in {Unset, ""})
            => (/\ ctf_version' = "3.7.5"
                /\ set_calls' = <<<<"ctf_version", "3.7.5">>>>
                /\ upgrades' = upgrades
                /\ pc' = "theme")]_vars
    /\ [][ctf_version \notin {Unset, ""}
            => (/\ ctf_version' = ctf_version
                /\ "ctf_version" \notin KeysSet
                      => (\A i \in 1..Len(set_calls') :
                            set_calls'[i][1] # "ctf_version"))]_vars

\* C16 witness: create_app returned, having stored the running version
\* itself and called no upgrade.
C16_Witness ==
    /\ pc = "serving"
    /\ "ctf_version" \in KeysSet
    /\ ctf_version = "3.7.5"
    /\ upgrades = 0

\* C17 as stated: the theme step stores the default theme when ctf_theme is
\* unset and leaves a ctf_theme that is set alone, no other step of
\* create_app changes ctf_theme, and a create_app that returned leaves a
\* ctf_theme configured.
C17_ThemeDefaulted ==
    /\ [][(pc = "theme" /\ pc' # pc)
            => IF ctf_theme = Unset
               THEN ctf_theme' = "core-beta" /\ "ctf_theme" \in KeysSet'
               ELSE ctf_theme' = ctf_theme /\ "ctf_theme" \notin KeysSet']_vars
    /\ [][pc # "theme" => ctf_theme' = ctf_theme]_vars
    /\ [](pc = "serving" =>
            /\ ctf_theme # Unset
            /\ "ctf_theme" \in KeysSet => ctf_theme = "core-beta")

\* C17 as amended: the theme step stores the default theme when the stored
\* ctf_theme is unset or the empty string and leaves a ctf_theme that is not
\* empty alone, no other step of create_app changes ctf_theme, and so a
\* create_app that returned leaves a non-empty ctf_theme configured: the one
\* it found or the default.
C17_ThemeDefaultedIfEmpty ==
    /\ [][(pc = "theme" /\ pc' # pc)
            => IF ctf_theme \in {Unset, ""}
               THEN ctf_theme' = "core-beta" /\ "ctf_theme" \in KeysSet'
               ELSE ctf_theme' = ctf_theme /\ "ctf_theme" \notin KeysSet']_vars
    /\ [][pc # "theme" => ctf_theme' = ctf_theme]_vars
    /\ [](pc = "serving" =>
            /\ ctf_theme \notin {Unset, ""}
            /\ "ctf_theme" \in KeysSet => ctf_theme = "core-beta")

\* C17 witness: create_app returned and the theme is the default it stored.
C17_Witness ==
    /\ pc = "serving"
    /\ "ctf_theme" \in KeysSet
    /\ ctf_theme = "core-beta"

----------------------------------------------------------------------------
(* Claims about CTFdRequest, checked under SpecRequest *)

\* C13: once a request object is constructed its path is the script root
\* (SCRIPT_NAME without trailing slashes) followed by the original path
\* (PATH_INFO with one leading slash); the prefix was put in front once, by
\* the one assignment at construction, and reading the path later in the
\* request does not change the object.
C13_PathPrefixedOnce ==
    /\ [](request # NoRequest =>
            /\ request.script_root = rstrip(environ.SCRIPT_NAME, "/")
            /\ request.base_path = "/" \o lstrip(environ.PATH_INFO, "/")
            /\ request.path = request.script_root \o request.base_path
            /\ Len(request.path)
                  = Len(request.script_root) + Len(request.base_path)
            /\ request.rewrites = 1)
    /\ [][(request # NoRequest /\ environ' = environ)
            => request' = request]_vars
    /\ [](seen # "" => seen = request.path)

\* C13 witness: an application mounted under /ctf/ got a request for /ctf/x
\* and routing has read the path /ctf/ctf/x.
C13_Witness ==
    /\ environ = [SCRIPT_NAME |-> "/ctf/", PATH_INFO |-> "/ctf/x"]
    /\ request.path = "/ctf/ctf/x"
    /\ request.rewrites = 1
    /\ seen = "/ctf/ctf/x"

====
